---- MODULE Spec2Model ----
(***************************************************************************)
(* Model of packages/astro/src/i18n/middleware.ts: the i18n middleware     *)
(* (createI18nMiddleware) and its locale matcher (pathnameHasLocale).      *)
(*                                                                         *)
(* A JavaScript string is a sequence of one-character strings, so that     *)
(* split, replace and the regular expression of the middleware are         *)
(* computed character by character, as the engine computes them.           *)
(***************************************************************************)
EXTENDS Integers, Sequences, FiniteSets, TLC

VARIABLES
    i18n,          \* SSRManifest['i18n']: locales, defaultLocale, fallback, routing
    base,          \* SSRManifest['base']
    trailingSlash, \* SSRManifest['trailingSlash']
    buildFormat,   \* SSRManifest['buildFormat']
    pathname,      \* context.url.pathname of the request
    routeData,     \* the RouteData type attached to the request (or undefined)
    pc,            \* position of the handler's invocation
    nextCalls,     \* number of calls of next() made by the invocation
    downstream,    \* the value next() resolved to, as it was produced
    response,      \* the local `response` (its headers are mutable)
    result,        \* the value the handler returned
    decision,      \* the return statement the handler left by
    hasLocale      \* result of a direct call of pathnameHasLocale

vars == <<i18n, base, trailingSlash, buildFormat, pathname, routeData, pc,
          nextCalls, downstream, response, result, decision, hasLocale>>

----------------------------------------------------------------------------
(* Bounds of the model *)

\* the longest request path, in segments after the leading "/"
MaxSegs == 3

----------------------------------------------------------------------------
(* JavaScript values *)

\* the value `undefined`
Undefined == <<"#undefined">>

\* `${v}`: a template literal prints undefined as the nine letters
TemplateString(v) ==
    IF v = Undefined THEN <<"u", "n", "d", "e", "f", "i", "n", "e", "d">> ELSE v

Slash == <<"/">>

\* String.prototype.startsWith(pat, i - 1), 1-based
StartsWithAt(s, i, pat) ==
    /\ i + Len(pat) - 1 <= Len(s)
    /\ SubSeq(s, i, i + Len(pat) - 1) = pat

RECURSIVE SplitFrom(_, _, _, _)
SplitFrom(s, i, done, cur) ==
    IF i > Len(s) THEN Append(done, cur)
    ELSE IF s[i] = "/" THEN SplitFrom(s, i + 1, Append(done, cur), <<>>)
    ELSE SplitFrom(s, i + 1, done, Append(cur, s[i]))

\* pathname.split('/')
Split(s) == SplitFrom(s, 1, <<>>, <<>>)

RECURSIVE IndexOfFrom(_, _, _)
IndexOfFrom(s, pat, i) ==
    IF i + Len(pat) - 1 > Len(s) THEN 0
    ELSE IF StartsWithAt(s, i, pat) THEN i
    ELSE IndexOfFrom(s, pat, i + 1)

\* String.prototype.replace(pat, rep) with a string pattern: the first
\* occurrence of pat, wherever it starts, and only that one
ReplaceFirst(s, pat, rep) ==
    LET i == IndexOfFrom(s, pat, 1)
    IN  IF i = 0 THEN s
        ELSE SubSeq(s, 1, i - 1) \o rep \o SubSeq(s, i + Len(pat), Len(s))

----------------------------------------------------------------------------
(* new RegExp(`/${defaultLocale}(/|$)`, 'g') *)

\* length of the match of the regex at position i of s, 0 when it does not
\* match there: "/" and the locale, then either "/" (captured) or the end
RegexMatchLen(s, i, defaultLocale) ==
    LET lit == Slash \o defaultLocale
        after == i + Len(lit)
    IN  IF ~StartsWithAt(s, i, lit) THEN 0
        ELSE IF after <= Len(s) /\ s[after] = "/" THEN Len(lit) + 1
        ELSE IF after = Len(s) + 1 THEN Len(lit)
        ELSE 0

\* !!url.pathname.match(regex)
RegexMatches(s, defaultLocale) ==
    \E i \in 1..Len(s) : RegexMatchLen(s, i, defaultLocale) > 0

RECURSIVE RegexReplaceFrom(_, _, _)
RegexReplaceFrom(s, i, defaultLocale) ==
    IF i > Len(s) THEN <<>>
    ELSE LET n == RegexMatchLen(s, i, defaultLocale)
         IN  IF n = 0 THEN <<s[i]>> \o RegexReplaceFrom(s, i + 1, defaultLocale)
             ELSE (IF n = Len(defaultLocale) + 2 THEN Slash ELSE <<>>)
                  \o RegexReplaceFrom(s, i + n, defaultLocale)

\* url.pathname.replace(regex, '$1'): every match, left to right, matches
\* not overlapping, each replaced by its captured group
RegexReplace(s, defaultLocale) == RegexReplaceFrom(s, 1, defaultLocale)

----------------------------------------------------------------------------
(* Helpers the middleware imports *)

\* String.prototype.toLowerCase, on the letters the model's strings use
toLowerCase(c) ==
    CASE c = "E" -> "e"
      [] c = "N" -> "n"
      [] c = "F" -> "f"
      [] c = "R" -> "r"
      [] c = "S" -> "s"
      [] c = "P" -> "p"
      [] c = "B" -> "b"
      [] c = "T" -> "t"
      [] OTHER -> c

\* normalizeTheLocale(locale) of ./index.js: separators folded to "-",
\* letters to lower case
normalizeTheLocale(locale) ==
    [k \in 1..Len(locale) |->
        IF locale[k] = "_" THEN "-" ELSE toLowerCase(locale[k])]

RECURSIVE getPathByLocaleFrom(_, _, _)
getPathByLocaleFrom(locale, locales, k) ==
    IF k > Len(locales) THEN Undefined
    ELSE IF locales[k].isString
         THEN IF locales[k].path = locale THEN locales[k].path
              ELSE getPathByLocaleFrom(locale, locales, k + 1)
         ELSE IF \E c \in 1..Len(locales[k].codes) : locales[k].codes[c] = locale
              THEN locales[k].path
              ELSE getPathByLocaleFrom(locale, locales, k + 1)

\* getPathByLocale(locale, locales) of ./index.js: the path of the first
\* configured locale with that code, undefined when there is none
getPathByLocale(locale, locales) == getPathByLocaleFrom(locale, locales, 1)

\* shouldAppendForwardSlash(trailingSlash, buildFormat) of ../core/build/util.js
shouldAppendForwardSlash(ts, bf) ==
    CASE ts = "always" -> TRUE
      [] ts = "never" -> FALSE
      [] OTHER -> bf = "directory"

\* appendForwardSlash(path) of @astrojs/internal-helpers/path
appendForwardSlash(path) ==
    IF Len(path) > 0 /\ path[Len(path)] = "/" THEN path ELSE path \o Slash

\* joinPaths(a, b) of @astrojs/internal-helpers/path: the first part loses
\* a trailing slash, the last a leading one, and they are joined by "/"
joinPaths(a, b) ==
    LET first == IF Len(a) > 0 /\ a[Len(a)] = "/" THEN SubSeq(a, 1, Len(a) - 1) ELSE a
        last == IF Len(b) > 0 /\ b[1] = "/" THEN SubSeq(b, 2, Len(b)) ELSE b
    IN  first \o Slash \o last

\* a Response: status and headers (Location, and one header of the page)
NewResponse(status, headers) ==
    [isResponse |-> TRUE, status |-> status, headers |-> headers]

\* headers.set('Location', value)
SetLocation(headers, value) == [headers EXCEPT !.Location = value]

\* context.redirect(path): a 302 whose Location is the path
redirect(path) ==
    NewResponse(302, [Location |-> path, ContentType |-> Undefined])

----------------------------------------------------------------------------
(* The locale matcher *)

\* the comparison of the spec's matcher: the path of a structured locale
\* normalized like a bare locale
SegmentHasLocale_AllNormalized(segment, locales) ==
    \E k \in 1..Len(locales) :
        normalizeTheLocale(segment) = normalizeTheLocale(locales[k].path)

\* lines 14-21: does the segment match one of the locales
SegmentHasLocale(segment, locales) ==
    \E k \in 1..Len(locales) :
        IF locales[k].isString
        THEN normalizeTheLocale(segment) = normalizeTheLocale(locales[k].path)
        ELSE segment = locales[k].path

\* pathnameHasLocale(pathname, locales)
pathnameHasLocale(path, locales) ==
    LET segments == Split(path)
    IN  \E s \in 1..Len(segments) : SegmentHasLocale(segments[s], locales)

----------------------------------------------------------------------------
(* Configurations and requests *)

en == <<"e", "n">>
fr == <<"f", "r">>
es == <<"e", "s">>
sp == <<"s", "p">>
zz == <<"z", "z">>

\* a bare-string locale; `path` holds the string itself
StringLocale(code) == [isString |-> TRUE, path |-> code, codes |-> <<code>>]

\* a structured locale { path, codes }
ObjectLocale(path, codes) == [isString |-> FALSE, path |-> path, codes |-> codes]

\* i18n.locales: ["en", "fr", { path: "sp", codes: ["es"] }]
Locales == <<StringLocale(en), StringLocale(fr), ObjectLocale(sp, <<es>>)>>

RoutingStrategies ==
    {"pathname-prefix-other-locales", "pathname-prefix-always-no-redirect",
     "pathname-prefix-always"}

\* i18n.fallback: absent, or a list of source code -> target code
NoFallback == [configured |-> FALSE, entries |-> <<>>]
FallbackOf(entries) == [configured |-> TRUE, entries |-> entries]
Entry(key, target) == [key |-> key, target |-> target]

Fallbacks ==
    {NoFallback,
     FallbackOf(<<Entry(fr, en), Entry(es, en)>>),
     FallbackOf(<<Entry(fr, es)>>),
     FallbackOf(<<Entry(fr, zz)>>)}

\* the manifest's i18n; enabled = FALSE is a manifest without i18n
I18nWith(locales, routing, fallback) ==
    [enabled |-> TRUE, locales |-> locales, defaultLocale |-> en,
     fallback |-> fallback, routing |-> routing]

I18nOf(routing, fallback) == I18nWith(Locales, routing, fallback)

NoI18n ==
    [enabled |-> FALSE, locales |-> <<>>, defaultLocale |-> <<>>,
     fallback |-> NoFallback, routing |-> "none"]

Bases == {<<"/">>, <<"/", "b">>}
TrailingSlashes == {"always", "never", "ignore"}
BuildFormats == {"directory", "file"}

\* RouteData.type, or "undefined" when no route data is attached
RouteTypes == {"page", "fallback", "endpoint", "undefined"}

\* the path segments requests are made of
Segments ==
    {<<>>, en, fr, sp, <<"b">>, <<"F", "R">>, <<"e", "n", "x">>, <<"f", "r", "x">>}

RECURSIVE PathOf(_)
PathOf(segs) ==
    IF Len(segs) = 0 THEN <<>> ELSE Slash \o Head(segs) \o PathOf(Tail(segs))

\* url.pathname: "/" and the segments joined by "/"
PathsOver(segments) ==
    {PathOf(segs) : segs \in UNION {[1..n -> segments] : n \in 1..MaxSegs}}

NoHeaders == [Location |-> Undefined, ContentType |-> Undefined]
PageHeaders == [Location |-> Undefined, ContentType |-> <<"h">>]

\* a value next() resolved to that is not a Response
NotAResponse == [isResponse |-> FALSE, status |-> 0, headers |-> NoHeaders]

\* nothing yet
Pending == [isResponse |-> FALSE, status |-> 1, headers |-> NoHeaders]

\* what next() can resolve to
DownstreamValues ==
    {NewResponse(200, PageHeaders),
     NewResponse(302, [Location |-> <<"/", "x">>, ContentType |-> Undefined]),
     NewResponse(404, PageHeaders),
     NotAResponse}

----------------------------------------------------------------------------
(* createI18nMiddleware: the handler, lines 36-140 *)

\* a guard that lets only endpoints by
IsPageRoute_NotEndpoint(type) == type # "endpoint"

\* line 39, negated: the route is one the middleware governs
IsPageRoute(type) == type = "page" \/ type = "fallback"

\* the test without the regex's boundary: the locale after any "/"
pathnameContainsDefaultLocale_Substring(path, defaultLocale) ==
    IndexOfFrom(path, Slash \o defaultLocale, 1) > 0

\* lines 51-52: !!url.pathname.match(regex)
pathnameContainsDefaultLocale(path, defaultLocale) ==
    RegexMatches(path, defaultLocale)

\* the replacement the comment of lines 56-59 warns of: "/" and the locale
\* cut out wherever they first occur
newLocation_CutAnywhere(path, defaultLocale) ==
    ReplaceFirst(path, Slash \o defaultLocale, <<>>)

\* line 60: url.pathname.replace(regex, '$1')
newLocation(path, defaultLocale) == RegexReplace(path, defaultLocale)

\* lines 74 and 85: url.pathname === base + '/' || url.pathname === base
isRoot(path, b) == path = b \o Slash \/ path = b

\* what a part of the handler leaves behind: whether it returned, the value
\* it returned, by which return statement, and the local `response`
Returned(value, how, resp) ==
    [returned |-> TRUE, value |-> value, decision |-> how, response |-> resp]
NotReturned(resp) ==
    [returned |-> FALSE, value |-> Pending, decision |-> "none", response |-> resp]

\* lines 54-68: case 'pathname-prefix-other-locales'
PrefixOtherLocalesCase(cfg, path, resp) ==
    IF pathnameContainsDefaultLocale(path, cfg.defaultLocale)
    THEN LET headers == SetLocation(resp.headers, newLocation(path, cfg.defaultLocale))
         IN  Returned(NewResponse(404, headers), "NotFound",
                      [resp EXCEPT !.headers = headers])
    ELSE NotReturned(resp)

\* the case without the exemption of the root
PrefixAlwaysNoRedirectCase_RootNotExempt(cfg, b, path, resp) ==
    IF ~pathnameHasLocale(path, cfg.locales)
    THEN Returned(NewResponse(404, resp.headers), "NotFound", resp)
    ELSE NotReturned(resp)

\* lines 70-82: case 'pathname-prefix-always-no-redirect'
PrefixAlwaysNoRedirectCase(cfg, b, path, resp) ==
    IF ~(isRoot(path, b) \/ pathnameHasLocale(path, cfg.locales))
    THEN Returned(NewResponse(404, resp.headers), "NotFound", resp)
    ELSE NotReturned(resp)

\* the case with the 404 test ahead of the root's redirect
PrefixAlwaysCase_NotFoundFirst(cfg, b, ts, bf, path, resp) ==
    IF ~pathnameHasLocale(path, cfg.locales)
    THEN Returned(NewResponse(404, resp.headers), "NotFound", resp)
    ELSE IF isRoot(path, b)
    THEN IF shouldAppendForwardSlash(ts, bf)
         THEN Returned(redirect(appendForwardSlash(joinPaths(b, cfg.defaultLocale))),
                       "Redirect", resp)
         ELSE Returned(redirect(joinPaths(b, cfg.defaultLocale)), "Redirect", resp)
    ELSE NotReturned(resp)

\* the case whose redirect of the root is built but not returned
PrefixAlwaysCase_NoReturn(cfg, b, ts, bf, path, resp) ==
    IF isRoot(path, b)
    THEN [returned |-> FALSE,
          value |-> redirect(joinPaths(b, cfg.defaultLocale)),
          decision |-> "Redirect", response |-> resp]
    ELSE IF ~pathnameHasLocale(path, cfg.locales)
    THEN Returned(NewResponse(404, resp.headers), "NotFound", resp)
    ELSE NotReturned(resp)

\* lines 84-100: case 'pathname-prefix-always'
PrefixAlwaysCase(cfg, b, ts, bf, path, resp) ==
    IF isRoot(path, b)
    THEN IF shouldAppendForwardSlash(ts, bf)
         THEN Returned(redirect(appendForwardSlash(joinPaths(b, cfg.defaultLocale))),
                       "Redirect", resp)
         ELSE Returned(redirect(joinPaths(b, cfg.defaultLocale)), "Redirect", resp)
    ELSE IF ~pathnameHasLocale(path, cfg.locales)
    THEN Returned(NewResponse(404, resp.headers), "NotFound", resp)
    ELSE NotReturned(resp)

\* lines 47-101: the instanceof test and the switch on i18n.routing
StrategySwitch(cfg, b, ts, bf, path, resp) ==
    IF ~resp.isResponse THEN Returned(resp, "PassThrough", resp)
    ELSE CASE cfg.routing = "pathname-prefix-other-locales" ->
                  PrefixOtherLocalesCase(cfg, path, resp)
           [] cfg.routing = "pathname-prefix-always-no-redirect" ->
                  PrefixAlwaysNoRedirectCase(cfg, b, path, resp)
           [] cfg.routing = "pathname-prefix-always" ->
                  PrefixAlwaysCase(cfg, b, ts, bf, path, resp)
           [] OTHER -> NotReturned(resp)

\* lines 109-118: the callback of segments.find
IsLocaleSegment(segment, locales) ==
    \E k \in 1..Len(locales) : locales[k].path = segment

\* lines 107-119: the first segment that is a locale's string or path,
\* undefined when there is none
urlLocale(path, locales) ==
    LET segments == Split(path)
        hits == {s \in 1..Len(segments) : IsLocaleSegment(segments[s], locales)}
    IN  IF hits = {} THEN Undefined
        ELSE segments[CHOOSE s \in hits : \A t \in hits : s <= t]

\* line 104: Object.keys(i18n.fallback)
fallbackKeys(fallback) == {fallback.entries[k].key : k \in 1..Len(fallback.entries)}

\* line 122: fallback[urlLocale]
fallbackLocale(fallback, key) ==
    LET k == CHOOSE j \in 1..Len(fallback.entries) : fallback.entries[j].key = key
    IN  fallback.entries[k].target

\* lines 124-132: the pathname the request is redirected to
newPathname(cfg, path, locale) ==
    LET pathFallbackLocale == getPathByLocale(fallbackLocale(cfg.fallback, locale), cfg.locales)
    IN  IF pathFallbackLocale = cfg.defaultLocale
           /\ cfg.routing = "pathname-prefix-other-locales"
        THEN ReplaceFirst(path, Slash \o locale, <<>>)
        ELSE ReplaceFirst(path, Slash \o locale, Slash \o TemplateString(pathFallbackLocale))

\* lines 103-139: the fallback rewrite and the final return
FallbackBranch(cfg, path, resp) ==
    IF resp.status >= 300 /\ cfg.fallback.configured
    THEN LET locale == urlLocale(path, cfg.locales)
         IN  IF locale # Undefined /\ locale # <<>>
                /\ locale \in fallbackKeys(cfg.fallback)
             THEN Returned(redirect(newPathname(cfg, path, locale)),
                           "RedirectWithPathRewrite", resp)
             ELSE Returned(resp, "PassThrough", resp)
    ELSE Returned(resp, "PassThrough", resp)

\* lines 34-45: the handler runs up to its call of next()
Invoke ==
    /\ pc = "idle"
    /\ nextCalls' = nextCalls + 1
    /\ pc' = IF i18n.enabled /\ IsPageRoute(routeData) THEN "awaitNext" ELSE "returnNext"
    /\ UNCHANGED <<i18n, base, trailingSlash, buildFormat, pathname, routeData,
                   downstream, response, result, decision, hasLocale>>

\* next() resolves; lines 34 and 40 return its value as it is
NextResolves(value) ==
    /\ pc \in {"awaitNext", "returnNext"}
    /\ downstream' = value
    /\ response' = value
    /\ IF pc = "returnNext"
       THEN result' = value /\ decision' = "PassThrough" /\ pc' = "done"
       ELSE pc' = "switch" /\ UNCHANGED <<result, decision>>
    /\ UNCHANGED <<i18n, base, trailingSlash, buildFormat, pathname, routeData,
                   nextCalls, hasLocale>>

\* lines 47-101
StrategyDispatch ==
    /\ pc = "switch"
    /\ LET out == StrategySwitch(i18n, base, trailingSlash, buildFormat, pathname, response)
       IN  /\ response' = out.response
           /\ result' = out.value
           /\ decision' = out.decision
           /\ pc' = IF out.returned THEN "done" ELSE "fallback"
    /\ UNCHANGED <<i18n, base, trailingSlash, buildFormat, pathname, routeData,
                   nextCalls, downstream, hasLocale>>

\* lines 103-139
FallbackRewrite ==
    /\ pc = "fallback"
    /\ LET out == FallbackBranch(i18n, pathname, response)
       IN  /\ response' = out.response
           /\ result' = out.value
           /\ decision' = out.decision
           /\ pc' = "done"
    /\ UNCHANGED <<i18n, base, trailingSlash, buildFormat, pathname, routeData,
                   nextCalls, downstream, hasLocale>>

Next ==
    \/ Invoke
    \/ \E value \in DownstreamValues : NextResolves(value)
    \/ StrategyDispatch
    \/ FallbackRewrite

\* one invocation of the handler: the manifest and the request it is given
InitOver(configs, bases, slashes, formats, paths, types) ==
    /\ i18n \in configs
    /\ base \in bases
    /\ trailingSlash \in slashes
    /\ buildFormat \in formats
    /\ pathname \in paths
    /\ routeData \in types
    /\ pc = "idle"
    /\ nextCalls = 0
    /\ downstream = Pending
    /\ response = Pending
    /\ result = Pending
    /\ decision = "none"
    /\ hasLocale = FALSE

AllConfigs == {I18nOf(r, f) : r \in RoutingStrategies, f \in Fallbacks}

\* every manifest (the build's defaults for the slash policy), every request
Init ==
    InitOver(AllConfigs \cup {NoI18n}, Bases, {"ignore"}, {"directory"},
             PathsOver(Segments), RouteTypes)

Spec == Init /\ [][Next]_vars

\* the pathname-prefix-always manifests, without and with a fallback map,
\* under every slash policy
InitPrefixAlways ==
    InitOver({I18nOf("pathname-prefix-always", f) :
                  f \in {NoFallback, FallbackOf(<<Entry(fr, es)>>)}}, Bases,
             TrailingSlashes, BuildFormats, PathsOver(Segments),
             {"page", "fallback"})

SpecPrefixAlways == InitPrefixAlways /\ [][Next]_vars

----------------------------------------------------------------------------
(* pathnameHasLocale called on its own *)

\* ["en", "pt-BR", { path: "sp", codes: ["es"] }]
MatcherLocales ==
    <<StringLocale(en), StringLocale(<<"p", "t", "-", "B", "R">>),
      ObjectLocale(sp, <<es>>)>>

MatcherSegments ==
    {<<>>, en, <<"E", "N">>, <<"e", "n", "x">>, <<"p", "t", "-", "B", "R">>,
     <<"p", "t", "_", "b", "r">>, <<"p", "t">>, sp, <<"S", "P">>, es, <<"b">>}

\* lines 11-26
CallPathnameHasLocale ==
    /\ pc = "idle"
    /\ hasLocale' = pathnameHasLocale(pathname, i18n.locales)
    /\ pc' = "matched"
    /\ UNCHANGED <<i18n, base, trailingSlash, buildFormat, pathname, routeData,
                   nextCalls, downstream, response, result, decision>>

NextMatcher == CallPathnameHasLocale

InitMatcher ==
    InitOver({I18nWith(MatcherLocales, r, NoFallback) : r \in RoutingStrategies},
             {<<"/">>}, {"ignore"}, {"directory"}, PathsOver(MatcherSegments),
             {"page"})

SpecMatcher == InitMatcher /\ [][NextMatcher]_vars

----------------------------------------------------------------------------
(* Vocabulary of the properties *)

RECURSIVE Join(_)
\* the segments joined by "/"
Join(segs) ==
    IF Len(segs) = 0 THEN <<>>
    ELSE IF Len(segs) = 1 THEN segs[1]
    ELSE segs[1] \o Slash \o Join(Tail(segs))

\* the handler governed the request and next() gave it a Response
PageDone ==
    /\ pc = "done"
    /\ i18n.enabled
    /\ routeData \in {"page", "fallback"}
    /\ downstream.isResponse

\* the segments of the request path; the first is the empty string before
\* the leading "/"
PathSegments == Split(pathname)

\* a is a proper substring of b
ProperSubstring(a, b) ==
    /\ Len(a) < Len(b)
    /\ \E i \in 1..(Len(b) - Len(a) + 1) : SubSeq(b, i, i + Len(a) - 1) = a

RECURSIVE Unmatched(_, _, _, _)
\* the segments left when the matched default-locale segments are taken
\* out: a segment after the leading "/" is matched when it is the default
\* locale and the segment before it was not matched
Unmatched(segs, k, prevMatched, locale) ==
    IF k > Len(segs) THEN <<>>
    ELSE IF k > 1 /\ segs[k] = locale /\ ~prevMatched
         THEN Unmatched(segs, k + 1, TRUE, locale)
         ELSE <<segs[k]>> \o Unmatched(segs, k + 1, FALSE, locale)

\* the segments that are not empty
NonEmpty(segs) == SelectSeq(segs, LAMBDA seg : seg # <<>>)

\* the path is the site's root
AtRoot == pathname = base \/ pathname = base \o Slash

\* some segment of the path matches a configured locale (the matcher's sense)
HasLocaleSegment ==
    \E k \in 1..Len(PathSegments) : SegmentHasLocale(PathSegments[k], i18n.locales)

\* the first segment of the path that is, letter for letter, a configured
\* locale string or a structured locale's path; undefined when there is none
FirstLocaleSegment == urlLocale(pathname, i18n.locales)

\* the fallback rewrite applies: a status from 300 on, a fallback map, and
\* the first locale segment of the path among the keys of the map
FallbackApplies ==
    /\ downstream.status >= 300
    /\ i18n.fallback.configured
    /\ FirstLocaleSegment # Undefined
    /\ \E k \in 1..Len(i18n.fallback.entries) :
           i18n.fallback.entries[k].key = FirstLocaleSegment

\* the strategy switch left the response to the fallback branch
StrategyFellThrough == decision \notin {"NotFound", "Redirect"}

\* position of the first segment that is a configured locale string or path
FirstLocaleIndex ==
    CHOOSE k \in 1..Len(PathSegments) :
        /\ IsLocaleSegment(PathSegments[k], i18n.locales)
        /\ \A j \in 1..(k - 1) : ~IsLocaleSegment(PathSegments[j], i18n.locales)

\* the fallback target the map gives for a key
TargetOf(key) ==
    LET k == CHOOSE j \in 1..Len(i18n.fallback.entries) :
                 i18n.fallback.entries[j].key = key
    IN  i18n.fallback.entries[k].target

\* the code is a configured bare locale or one of a structured locale's codes
IsConfiguredCode(code) ==
    \E k \in 1..Len(i18n.locales) :
        \E c \in 1..Len(i18n.locales[k].codes) : i18n.locales[k].codes[c] = code

\* the path segment of the configured locale with that code
PathOfCode(code) ==
    LET k == CHOOSE j \in 1..Len(i18n.locales) :
                 \E c \in 1..Len(i18n.locales[j].codes) : i18n.locales[j].codes[c] = code
    IN  i18n.locales[k].path

\* the request path with only its segment k rewritten for the target code:
\* taken out when the target is the unprefixed default locale, replaced by
\* the target's path segment otherwise
RewrittenPath(k, target) ==
    IF PathOfCode(target) = i18n.defaultLocale
       /\ i18n.routing = "pathname-prefix-other-locales"
    THEN Join(SubSeq(PathSegments, 1, k - 1)
              \o SubSeq(PathSegments, k + 1, Len(PathSegments)))
    ELSE Join([PathSegments EXCEPT ![k] = PathOfCode(target)])

----------------------------------------------------------------------------
(* Properties *)

\* C1: a request whose route type is neither page nor fallback (or that has
\* no route data) gets exactly the value next() produced, whatever the
\* strategy, the path and the fallback configuration.
C1_NonPagePassThrough ==
    (pc = "done" /\ routeData \notin {"page", "fallback"})
        => /\ result = downstream
           /\ response = downstream
           /\ nextCalls = 1

\* C1 happens: a route without route data on the root of a prefix-always
\* site, where a page would have been redirected
C1_Witness ==
    /\ pc = "done"
    /\ routeData = "undefined"
    /\ i18n.routing = "pathname-prefix-always"
    /\ isRoot(pathname, base)
    /\ result = NewResponse(200, PageHeaders)

\* C2: under pathname-prefix-other-locales a page request whose path has the
\* default locale as a whole segment, answered downstream by a Response of
\* any status, gets a 404 whose Location is the path without the matched
\* default-locale segments, every other segment and header as it was.
C2_DefaultLocaleStripped ==
    (/\ PageDone
     /\ i18n.routing = "pathname-prefix-other-locales"
     /\ \E k \in 2..Len(PathSegments) : PathSegments[k] = i18n.defaultLocale)
        => /\ result.isResponse
           /\ result.status = 404
           /\ result.headers.Location =
                  Join(Unmatched(PathSegments, 1, FALSE, i18n.defaultLocale))
           /\ result.headers.ContentType = downstream.headers.ContentType

\* C2 happens: /b/en/b answered 200 downstream becomes a 404 to /b/b
C2_Witness ==
    /\ PageDone
    /\ i18n.routing = "pathname-prefix-other-locales"
    /\ pathname = <<"/", "b", "/", "e", "n", "/", "b">>
    /\ downstream.status = 200
    /\ result.status = 404
    /\ result.headers.Location = <<"/", "b", "/", "b">>

\* C3: under pathname-prefix-other-locales a page request whose path holds
\* the default locale only inside a longer segment, answered 200 downstream,
\* is returned as next() produced it.
C3_NoSubstringMatch ==
    (/\ PageDone
     /\ i18n.routing = "pathname-prefix-other-locales"
     /\ downstream.status = 200
     /\ \A k \in 1..Len(PathSegments) : PathSegments[k] # i18n.defaultLocale
     /\ \E k \in 1..Len(PathSegments) :
            ProperSubstring(i18n.defaultLocale, PathSegments[k]))
        => /\ result = downstream
           /\ result.headers.Location = Undefined

\* C3 happens: /enx with default locale en
C3_Witness ==
    /\ PageDone
    /\ i18n.routing = "pathname-prefix-other-locales"
    /\ pathname = <<"/", "e", "n", "x">>
    /\ downstream.status = 200
    /\ result.status = 200

\* C4 as stated: under pathname-prefix-always-no-redirect the root and every
\* path with a locale segment pass through, a path that is not the root and
\* has no locale segment is a 404, and no redirect to a locale prefix is made.
C4_Original ==
    (PageDone /\ i18n.routing = "pathname-prefix-always-no-redirect")
        => /\ AtRoot => result = downstream
           /\ (~AtRoot /\ ~HasLocaleSegment) =>
                  result = NewResponse(404, downstream.headers)
           /\ (~AtRoot /\ HasLocaleSegment) => result = downstream
           /\ decision # "Redirect"

\* C4, amended: the 404 is as stated and the strategy adds no locale prefix;
\* the root and a path with a locale segment are left to the fallback
\* rewrite: they pass through unless that rewrite applies, and then the
\* result is its redirect.
C4_NoRedirectStrategy ==
    (PageDone /\ i18n.routing = "pathname-prefix-always-no-redirect")
        => /\ (~AtRoot /\ ~HasLocaleSegment) =>
                  /\ result = NewResponse(404, downstream.headers)
                  /\ decision = "NotFound"
           /\ (AtRoot \/ HasLocaleSegment) =>
                  IF FallbackApplies
                  THEN /\ decision = "RedirectWithPathRewrite"
                       /\ result.status = 302
                  ELSE /\ decision = "PassThrough"
                       /\ result = downstream
           /\ decision # "Redirect"

\* C4 happens: the root passes, /b/enx is a 404, /FR/b passes with its 404
\* (a locale by normalization only), /fr/b with a 404 is rewritten
C4_Witness ==
    /\ PageDone
    /\ i18n.routing = "pathname-prefix-always-no-redirect"
    /\ \/ AtRoot /\ downstream.status = 200 /\ result = downstream
       \/ /\ pathname = <<"/", "b", "/", "e", "n", "x">>
          /\ downstream.status = 200
          /\ result.status = 404
       \/ /\ pathname = <<"/", "F", "R", "/", "b">>
          /\ downstream.status = 404
          /\ i18n.fallback.configured
          /\ result = downstream
       \/ /\ pathname = <<"/", "f", "r", "/", "b">>
          /\ downstream.status = 404
          /\ decision = "RedirectWithPathRewrite"

\* C5: under pathname-prefix-always the root is redirected to the base and
\* the default locale, with a trailing slash exactly when the slash policy
\* appends one, and is never a 404; a path that is not the root and has no
\* locale segment is a 404.
C5_PrefixAlways ==
    (PageDone /\ i18n.routing = "pathname-prefix-always")
        => /\ AtRoot =>
                  /\ decision = "Redirect"
                  /\ result.status = 302
                  /\ result.headers.Location =
                         PathOf(NonEmpty(Split(base)) \o <<i18n.defaultLocale>>)
                         \o (IF shouldAppendForwardSlash(trailingSlash, buildFormat)
                             THEN Slash ELSE <<>>)
           /\ (~AtRoot /\ ~HasLocaleSegment) =>
                  /\ decision = "NotFound"
                  /\ result = NewResponse(404, downstream.headers)

\* C5 happens: /b/ is redirected to /b/en/ under "always", /b to /b/en under
\* "never", and /b/enx is a 404
C5_Witness ==
    /\ PageDone
    /\ i18n.routing = "pathname-prefix-always"
    /\ \/ /\ pathname = <<"/", "b", "/">>
          /\ base = <<"/", "b">>
          /\ trailingSlash = "always"
          /\ result.headers.Location = <<"/", "b", "/", "e", "n", "/">>
       \/ /\ pathname = <<"/", "b">>
          /\ base = <<"/", "b">>
          /\ trailingSlash = "never"
          /\ result.headers.Location = <<"/", "b", "/", "e", "n">>
       \/ /\ pathname = <<"/", "b", "/", "e", "n", "x">>
          /\ result.status = 404

\* C6: when the strategy switch did not return, the downstream status is
\* 300 or more, a fallback map is configured and the first locale segment of
\* the path has a fallback target (a configured locale), the result is a
\* redirect to the request path with only that segment changed: removed for
\* the default locale under pathname-prefix-other-locales, replaced by the
\* target's path segment otherwise.
C6_FallbackRewrite ==
    (/\ PageDone
     /\ StrategyFellThrough
     /\ downstream.status >= 300
     /\ i18n.fallback.configured
     /\ FirstLocaleSegment # Undefined
     /\ FirstLocaleSegment \in fallbackKeys(i18n.fallback)
     /\ IsConfiguredCode(TargetOf(FirstLocaleSegment)))
        => /\ result.status = 302
           /\ result.headers.Location =
                  RewrittenPath(FirstLocaleIndex, TargetOf(FirstLocaleSegment))

\* C7: a fallback target that is no configured locale resolves to nothing:
\* no redirect is made and the downstream response is returned unchanged.
C7_MalformedFallbackSkipped ==
    (/\ PageDone
     /\ StrategyFellThrough
     /\ downstream.status >= 300
     /\ i18n.fallback.configured
     /\ FirstLocaleSegment # Undefined
     /\ FirstLocaleSegment \in fallbackKeys(i18n.fallback)
     /\ ~IsConfiguredCode(TargetOf(FirstLocaleSegment)))
        => /\ result = downstream
           /\ decision = "PassThrough"

\* C9: the fallback map is keyed by code: a path whose first locale segment
\* is the path of a structured locale (path different from its codes), with
\* a code that has a fallback entry, is rewritten to the fallback locale's
\* path when the downstream status is 300 or more, as for a bare locale.
C9_FallbackKeyedByCode ==
    (/\ PageDone
     /\ StrategyFellThrough
     /\ downstream.status >= 300
     /\ i18n.fallback.configured
     /\ FirstLocaleSegment # Undefined)
        => \A k \in 1..Len(i18n.locales) :
               \A c \in 1..Len(i18n.locales[k].codes) :
                   (/\ ~i18n.locales[k].isString
                    /\ i18n.locales[k].path = FirstLocaleSegment
                    /\ i18n.locales[k].path # i18n.locales[k].codes[c]
                    /\ i18n.locales[k].codes[c] \in fallbackKeys(i18n.fallback)
                    /\ IsConfiguredCode(TargetOf(i18n.locales[k].codes[c])))
                       => /\ result.status = 302
                          /\ decision = "RedirectWithPathRewrite"
                          /\ result.headers.Location =
                                 RewrittenPath(FirstLocaleIndex,
                                               TargetOf(i18n.locales[k].codes[c]))

\* C10: an invocation calls next() once, decides once, after next() has
\* resolved, and ends in one of the four outcomes; the fallback branch is
\* entered with the downstream response only, never with a response the
\* strategy switch made.
C10_OneCallOneOutcome ==
    /\ nextCalls = (IF pc = "idle" THEN 0 ELSE 1)
    /\ pc # "done" => (decision = "none" /\ result = Pending)
    /\ pc = "fallback" => (response = downstream /\ downstream.isResponse)
    /\ pc = "done" =>
           \/ decision = "PassThrough" /\ result = downstream
           \/ decision = "NotFound" /\ result.status = 404
           \/ /\ decision \in {"Redirect", "RedirectWithPathRewrite"}
              /\ result.status = 302
              /\ result.headers.Location # Undefined

\* C10 happens: a fallback redirect made from a downstream 404 after one
\* call of next()
C10_Witness ==
    /\ pc = "done"
    /\ nextCalls = 1
    /\ decision = "RedirectWithPathRewrite"
    /\ downstream.status = 404
    /\ result.status = 302

\* C8 as stated: pathnameHasLocale is true exactly when some segment of the
\* path equals, after normalization, a bare locale or the path of a
\* structured locale.
C8_Original ==
    pc = "matched" =>
        hasLocale =
            (\E s \in 1..Len(PathSegments) : \E k \in 1..Len(i18n.locales) :
                 normalizeTheLocale(PathSegments[s])
                     = normalizeTheLocale(i18n.locales[k].path))

\* C8, amended: pathnameHasLocale is true exactly when some segment of the
\* path equals a bare locale after normalization of both, or equals the path
\* of a structured locale letter for letter.
C8_MatcherIff ==
    pc = "matched" =>
        hasLocale =
            (\E s \in 1..Len(PathSegments) : \E k \in 1..Len(i18n.locales) :
                 \/ /\ i18n.locales[k].isString
                    /\ normalizeTheLocale(PathSegments[s])
                           = normalizeTheLocale(i18n.locales[k].path)
                 \/ /\ ~i18n.locales[k].isString
                    /\ PathSegments[s] = i18n.locales[k].path)

\* C8 happens: /b/SP has no locale (the structured path is sp), /b/pt_br has
\* one (the bare locale pt-BR)
C8_Witness ==
    /\ pc = "matched"
    /\ \/ pathname = <<"/", "b", "/", "S", "P">> /\ ~hasLocale
       \/ pathname = <<"/", "b", "/", "p", "t", "_", "b", "r">> /\ hasLocale

====
